---------------------------- MODULE Spec2Model ----------------------------
(***************************************************************************)
(* A model of flexget/plugins/api_t411.py: the T411 REST client, the       *)
(* object mapper that turns the upstream JSON trees into ORM objects, the  *)
(* proxy that synchronises and queries the local cache, and the            *)
(* manager.db_cleanup handler.                                             *)
(*                                                                         *)
(* Python values are modelled as follows.                                  *)
(*  - None is the empty tuple.  A nullable scalar (api_token, parent_id,   *)
(*    the memoized flag) is None or the one-element tuple <<v>>.           *)
(*  - A JSON object is a record; a key the object lacks is a field the     *)
(*    record lacks, so d.get(k) is None exactly when k \notin DOMAIN d.    *)
(*  - A JSON object that the code only iterates is a sequence, in the      *)
(*    dict's iteration order: the values (itervalues) or the               *)
(*    <<key, value>> items (iteritems).                                    *)
(*  - A dict built by the code is a function from its keys.                *)
(*  - The upstream API sends ids as decimal strings; int() parses them.    *)
(*  - A call either returns a value or raises: Return(v) or Raise(e).      *)
(***************************************************************************)
EXTENDS Integers, Sequences, FiniteSets, TLC

VARIABLES
    api_token,             \* T411RestClient.api_token
    credentials,           \* T411RestClient.credentials
    has_cached,            \* T411Proxy.__has_cached_criterias
    categories,            \* rows of table categories
    term_types,            \* rows of table term_types
    terms,                 \* rows of table term
    category_term_types,   \* rows of table category_term_types
    call                   \* the last call made on the module and its result

vars == <<api_token, credentials, has_cached, categories, term_types, terms,
          category_term_types, call>>
state == <<api_token, credentials, has_cached, categories, term_types, terms,
           category_term_types>>

None == <<>>
Some(v) == <<v>>
Has(d, k) == k \in DOMAIN d
Return(v) == [returned |-> v]
Raise(e) == [raised |-> e]
Returned(r) == "returned" \in DOMAIN r
Range(s) == {s[i] : i \in DOMAIN s}

\* dict[k] = v
Put(d, k, v) == [x \in DOMAIN d \cup {k} |-> IF x = k THEN v ELSE d[x]]

(***************************************************************************)
(* int(): the decimal strings the upstream sends, and what they parse to.  *)
(* "01" and "02" parse to the same integers as "1" and "2".                *)
(***************************************************************************)
Numerals == <<"0", "1", "2", "3", "4", "5", "6", "7", "8", "9", "10",
              "11", "12", "13", "14", "15", "16", "17", "18", "19", "20">>
Padded == <<"00", "01", "02", "03">>
str(n) == Numerals[n + 1]
int(s) ==
    IF \E n \in DOMAIN Padded : Padded[n] = s
    THEN (CHOOSE n \in DOMAIN Padded : Padded[n] = s) - 1
    ELSE (CHOOSE n \in DOMAIN Numerals : Numerals[n] = s) - 1

-----------------------------------------------------------------------------
(***************************************************************************)
(* T411ObjectMapper                                                        *)
(***************************************************************************)

\* Category(): the ORM object, its collections empty.
Category(id, name, parent_id, sub_categories) ==
    [id |-> id, name |-> name, parent_id |-> parent_id,
     sub_categories |-> sub_categories, term_types |-> <<>>]

RECURSIVE map_category(_)
map_category(json_category) ==
    IF \/ ~Has(json_category, "id")
       \/ ~Has(json_category, "pid")
       \/ ~Has(json_category, "name")
    THEN None
    ELSE LET pid == int(json_category.pid)
             json_sub_categories ==
                 IF Has(json_category, "cats") THEN json_category.cats ELSE <<>>
         IN  Category(int(json_category.id),
                      json_category.name,
                      IF pid = 0 THEN None ELSE Some(pid),
                      [i \in DOMAIN json_sub_categories |->
                          map_category(json_sub_categories[i])])

\* for sub_category in main_category.sub_categories:
\*     indexed_categories[sub_category.id] = sub_category
RECURSIVE index_sub_categories(_, _)
index_sub_categories(indexed_categories, sub_categories) ==
    IF sub_categories = <<>> THEN indexed_categories
    ELSE index_sub_categories(
             Put(indexed_categories, Head(sub_categories).id, Head(sub_categories)),
             Tail(sub_categories))

\* The loop of map_category_tree over the values still to visit.  Reading
\* sub_category.id of a None sub-category raises AttributeError.
RECURSIVE map_category_tree_loop(_, _, _)
map_category_tree_loop(values, main_categories, indexed_categories) ==
    IF values = <<>>
    THEN Return([main_categories |-> main_categories,
                 indexed_categories |-> indexed_categories])
    ELSE LET main_category == map_category(Head(values)) IN
         IF main_category = None
         THEN map_category_tree_loop(Tail(values), main_categories, indexed_categories)
         ELSE IF \E i \in DOMAIN main_category.sub_categories :
                     main_category.sub_categories[i] = None
         THEN Raise("AttributeError")
         ELSE map_category_tree_loop(
                  Tail(values),
                  Append(main_categories, main_category),
                  index_sub_categories(
                      Put(indexed_categories, main_category.id, main_category),
                      main_category.sub_categories))

map_category_tree(json_category_tree) ==
    map_category_tree_loop(json_category_tree, <<>>, <<>>)

\* TermType() and Term(): the ORM objects.  Term.type_id is set when the
\* term is persisted as a member of term_type.terms.
map_term_type(term_type_id, json_term_type) ==
    [id |-> term_type_id,
     name |-> json_term_type.type,
     mode |-> json_term_type.mode,
     terms |-> [i \in DOMAIN json_term_type.terms |->
                   [id |-> int(json_term_type.terms[i][1]),
                    name |-> json_term_type.terms[i][2]]]]

\* The inner loop with the relation recorded only for a term type not yet
\* parsed.
RECURSIVE map_new_term_types_of_category(_, _, _)
map_new_term_types_of_category(category_key, items, acc) ==
    IF items = <<>> THEN acc
    ELSE LET term_type_id == int(Head(items)[1])
             term_type_content == Head(items)[2]
         IN  map_new_term_types_of_category(
                 category_key, Tail(items),
                 IF term_type_id \notin DOMAIN acc.term_types
                 THEN [category_to_term_type |->
                           Append(acc.category_to_term_type,
                                  <<int(category_key), term_type_id>>),
                       term_types |-> Put(acc.term_types, term_type_id,
                                          map_term_type(term_type_id, term_type_content)),
                       mapped |-> Append(acc.mapped, term_type_id)]
                 ELSE acc)

\* The inner loop of map_term_type_tree over the items of one category's
\* term types.  acc.mapped lists, in order, the ids map_term_type was called
\* for: the TermType objects the call created.
RECURSIVE map_term_types_of_category(_, _, _)
map_term_types_of_category(category_key, items, acc) ==
    IF items = <<>> THEN acc
    ELSE LET term_type_id == int(Head(items)[1])
             term_type_content == Head(items)[2]
             recorded == Append(acc.category_to_term_type,
                                <<int(category_key), term_type_id>>)
         IN  map_term_types_of_category(
                 category_key, Tail(items),
                 IF term_type_id \notin DOMAIN acc.term_types
                 THEN [category_to_term_type |-> recorded,
                       term_types |-> Put(acc.term_types, term_type_id,
                                          map_term_type(term_type_id, term_type_content)),
                       mapped |-> Append(acc.mapped, term_type_id)]
                 ELSE [acc EXCEPT !.category_to_term_type = recorded])

\* The outer loop of map_term_type_tree over the items of the tree.
RECURSIVE map_term_type_tree_loop(_, _)
map_term_type_tree_loop(items, acc) ==
    IF items = <<>> THEN acc
    ELSE map_term_type_tree_loop(
             Tail(items),
             map_term_types_of_category(Head(items)[1], Head(items)[2], acc))

map_term_type_tree(json_tree) ==
    map_term_type_tree_loop(
        json_tree,
        [category_to_term_type |-> <<>>, term_types |-> <<>>, mapped |-> <<>>])

-----------------------------------------------------------------------------
(***************************************************************************)
(* T411RestClient                                                          *)
(***************************************************************************)
T411API_CATEGORY_TREE_PATH == "/categories/tree/"
T411API_TERMS_PATH == "/terms/tree/"
T411API_SEARCH_PATH == "/torrents/search/"

\* auth() without the test of the error field.
auth_unchecked(token, json_response) ==
    IF Has(json_response, "token") THEN Some(json_response.token) ELSE None

\* auth(): the api_token after the upstream answered json_response.
auth(token, json_response) ==
    IF Has(json_response, "error") /\ json_response.error # ""
    THEN token
    ELSE IF Has(json_response, "token") THEN Some(json_response.token) ELSE None

is_authenticated(token) == token # None

\* get_json(path): the assertion, then the GET of url.
get_json(token, url) ==
    IF is_authenticated(token) THEN Return(url) ELSE Raise("AssertionError")

\* The name 'term[' + str(term_type_id) + '][]', as the pieces concatenated.
term_param_name(term_type_id) == <<"term[", str(term_type_id), "][]">>

\* T411RestClient.search(query), up to the call of get_json: the url, as its
\* path, the expression appended to it and the list urlencode() is given
\* (urlencode writes each value with str()).  Each element of query['terms']
\* is unpacked as (term_id, term_type_id).
search_url(query) ==
    [path |-> T411API_SEARCH_PATH,
     expression |-> IF Has(query, "expression") THEN Some(query.expression) ELSE None,
     url_params |->
        (IF Has(query, "category_id")
            THEN << <<(<<"cat">>), str(query.category_id)>> >> ELSE <<>>)
        \o (IF Has(query, "result_per_page")
            THEN << <<(<<"limit">>), str(query.result_per_page)>> >> ELSE <<>>)
        \o (IF Has(query, "page_index")
            THEN << <<(<<"offset">>), str(query.page_index)>> >> ELSE <<>>)
        \o (IF Has(query, "terms")
            THEN [i \in DOMAIN query.terms |->
                    LET term_id == query.terms[i][1]
                        term_type_id == query.terms[i][2]
                    IN  <<term_param_name(term_type_id), str(term_id)>>]
            ELSE <<>>)]

-----------------------------------------------------------------------------
(***************************************************************************)
(* The persistent storage.  A query without ORDER BY returns the rows in   *)
(* ascending primary key, SQLite's scan order of a table whose INTEGER     *)
(* PRIMARY KEY is its rowid.                                               *)
(***************************************************************************)
RECURSIVE query_order(_)
query_order(rows) ==
    IF rows = {} THEN <<>>
    ELSE LET first == CHOOSE r \in rows : \A q \in rows : r.id <= q.id
         IN  <<first>> \o query_order(rows \ {first})

-----------------------------------------------------------------------------
(***************************************************************************)
(* T411Proxy                                                               *)
(***************************************************************************)

\* set_credentials(username, password): the client's token and credentials.
set_credentials(username, password) ==
    [api_token |-> None,
     credentials |-> [username |-> Some(username), password |-> Some(password)]]

\* has_cached_criterias(): the memoized flag after the call; the call
\* returns the flag's value.
has_cached_criterias(flag, category_rows) ==
    IF flag = None THEN Some(Cardinality(category_rows) > 0) ELSE flag

\* find_category_by_name() without the handler of MultipleResultsFound.
find_category_by_name_unhandled(category_rows, category_name) ==
    LET query == query_order({c \in category_rows : c.name = category_name})
    IN  IF Len(query) = 1 THEN Return(query[1])
        ELSE IF Len(query) > 1 THEN Raise("MultipleResultsFound")
        ELSE Return(None)

\* find_category_by_name(category_name): query.one() raises NoResultFound
\* or MultipleResultsFound; both are caught.
find_category_by_name(category_rows, category_name) ==
    LET query == query_order({c \in category_rows : c.name = category_name})
    IN  IF Len(query) = 1 THEN Return(query[1])
        ELSE IF Len(query) > 1 THEN Return(Head(query))
        ELSE Return(None)

\* friendly_query_to_client_query(friendly_query).  The single-row lookup
\* .one() of the category id raises when no row or several rows carry the
\* name.  The terms query selects (Term.type_id, Term.id), in that order.
friendly_query_to_client_query(friendly_query, db) ==
    LET expression ==
            IF friendly_query.expression # None
            THEN "expression" :> friendly_query.expression[1] ELSE <<>>
        paging ==
            IF friendly_query.max_results # None
            THEN ("result_per_page" :> friendly_query.max_results[1])
                 @@ ("page_index" :> 0)
            ELSE <<>>
    IN  IF friendly_query.category_name = None
        THEN Return(expression @@ paging)
        ELSE LET ids == {c.id : c \in {r \in db.categories :
                                         r.name = friendly_query.category_name[1]}}
             IN  IF ids = {} THEN Raise("NoResultFound")
                 ELSE IF Cardinality(ids) > 1 THEN Raise("MultipleResultsFound")
                 ELSE LET category_id == CHOOSE i \in ids : TRUE
                          selected == query_order(
                              {t \in db.terms :
                                  /\ t.name \in friendly_query.term_names
                                  /\ \E tt \in db.term_types :
                                        /\ t.type_id = tt.id
                                        /\ <<category_id, tt.id>> \in db.category_term_types
                                        /\ \E c \in db.categories : c.id = category_id})
                      IN  Return(expression
                                 @@ ("category_id" :> category_id)
                                 @@ ("terms" :> [i \in DOMAIN selected |->
                                        <<selected[i].type_id, selected[i].id>>])
                                 @@ paging)

\* Proxy.search(query), up to the mapping of the entries returned: how the
\* translation of the query ends, the url asked for and how the call ends.
search(token, friendly_query, db) ==
    LET client_query == friendly_query_to_client_query(friendly_query, db)
    IN  IF ~Returned(client_query)
        THEN [client_query |-> client_query, url |-> None, result |-> client_query]
        ELSE LET url == search_url(client_query.returned)
                 json_results == get_json(token, url)
             IN  [client_query |-> client_query,
                  url |-> url,
                  result |-> IF Returned(json_results)
                             THEN Return("entries") ELSE json_results]

\* The rows session.add_all(category_list) inserts into table categories:
\* the save-update cascade follows sub_categories to every depth, and the
\* relation writes the parent's id into a sub-category's parent_id.
RECURSIVE category_rows_of(_, _)
category_rows_of(category_list, parent) ==
    IF category_list = <<>> THEN <<>>
    ELSE LET c == Head(category_list) IN
         (IF c = None THEN <<>>
          ELSE << [id |-> c.id, name |-> c.name,
                   parent_id |-> IF parent = None THEN c.parent_id ELSE parent] >>
               \o category_rows_of(c.sub_categories, Some(c.id)))
         \o category_rows_of(Tail(category_list), parent)

\* Whether a sub_categories collection reached from category_list holds None.
RECURSIVE holds_none(_)
holds_none(category_list) ==
    \E i \in DOMAIN category_list :
        \/ category_list[i] = None
        \/ holds_none(category_list[i].sub_categories)

\* The rows inserted into table term for the term types of a dict.
term_rows_of(term_type_dict) ==
    LET RECURSIVE of_ids(_)
        of_ids(ids) ==
            IF ids = {} THEN <<>>
            ELSE LET id == CHOOSE i \in ids : \A j \in ids : i <= j
                     tt == term_type_dict[id]
                 IN  [i \in DOMAIN tt.terms |->
                        [id |-> tt.terms[i].id, name |-> tt.terms[i].name,
                         type_id |-> tt.id]]
                     \o of_ids(ids \ {id})
    IN  of_ids(DOMAIN term_type_dict)

distinct_ids(rows) == Cardinality({rows[i].id : i \in DOMAIN rows}) = Len(rows)

\* The flush of what synchronize_database added to the session: the rows
\* are inserted, or the flush raises and the transaction is rolled back.  A
\* None in a collection cannot be flushed; an id already in its table, or
\* twice among the new rows, violates the primary key.
flush(db, main_categories, term_type_dict, category_to_term_type) ==
    LET new_categories == category_rows_of(main_categories, None)
        new_terms == term_rows_of(term_type_dict)
    IN  IF holds_none(main_categories) THEN Raise("FlushError")
        ELSE IF \/ ~distinct_ids(new_categories)
                \/ ~distinct_ids(new_terms)
                \/ \E r \in Range(new_categories) : \E q \in db.categories : r.id = q.id
                \/ \E id \in DOMAIN term_type_dict : \E q \in db.term_types : id = q.id
                \/ \E r \in Range(new_terms) : \E q \in db.terms : r.id = q.id
        THEN Raise("IntegrityError")
        ELSE Return(
            [categories |-> db.categories \cup Range(new_categories),
             term_types |-> db.term_types \cup
                 {[id |-> id, name |-> term_type_dict[id].name,
                   mode |-> term_type_dict[id].mode] : id \in DOMAIN term_type_dict},
             terms |-> db.terms \cup Range(new_terms),
             category_term_types |-> db.category_term_types
                                     \cup Range(category_to_term_type)])

\* synchronize_database() without its last line.
keep_cached_criterias(flag) == flag

\* The memoized flag once synchronize_database has added the categories.
invalidate_cached_criterias(flag) == None

\* synchronize_database(), the upstream answering auth() with auth_response
\* and the two fetches with category_tree and term_tree: the token, the
\* memoized flag and the tables after the call, and how the call ends.
synchronize_database(token, flag, db, auth_response, category_tree, term_tree) ==
    LET token1 == IF ~is_authenticated(token) THEN auth(token, auth_response)
                  ELSE token
        fetched_categories == get_json(token1, T411API_CATEGORY_TREE_PATH)
        fetched_terms == get_json(token1, T411API_TERMS_PATH)
        mapped_categories == map_category_tree(category_tree)
        mapped_term_types == map_term_type_tree(term_tree)
        stopped(exception) ==
            [api_token |-> token1, has_cached |-> flag, db |-> db,
             result |-> exception]
    IN  IF ~Returned(fetched_categories) THEN stopped(fetched_categories)
        ELSE IF ~Returned(fetched_terms) THEN stopped(fetched_terms)
        ELSE IF ~Returned(mapped_categories) THEN stopped(mapped_categories)
        ELSE LET main_categories == mapped_categories.returned.main_categories
                 indexed_categories == mapped_categories.returned.indexed_categories
                 category_to_term_type == mapped_term_types.category_to_term_type
             IN  \* category = indexed_categories.get(category_id)
                 \* category.term_types.append(term_type)
                 IF \E i \in DOMAIN category_to_term_type :
                        category_to_term_type[i][1] \notin DOMAIN indexed_categories
                 THEN stopped(Raise("AttributeError"))
                 ELSE LET flushed == flush(db, main_categories,
                                           mapped_term_types.term_types,
                                           category_to_term_type)
                      IN  [api_token |-> token1,
                           has_cached |-> invalidate_cached_criterias(flag),
                           db |-> IF Returned(flushed) THEN flushed.returned ELSE db,
                           result |-> IF Returned(flushed) THEN Return(None)
                                      ELSE flushed]

\* db_cleanup(manager, session): two bulk deletes, which run no ORM cascade;
\* no foreign key of the schema declares ON DELETE CASCADE.
db_cleanup(db) ==
    [db EXCEPT !.categories = {}, !.term_types = {}]

-----------------------------------------------------------------------------
(***************************************************************************)
(* What the callers and the upstream supply.                               *)
(***************************************************************************)

\* The two answers of POST /auth: {token} or {code, error}.
AuthResponses ==
    {[token |-> "tokenA"], [token |-> "tokenB"],
     [code |-> "101", error |-> "User not found"]}

Logins == {<<"alice", "secret">>}

json_category(id, pid, name) == [id |-> str(id), pid |-> str(pid), name |-> name]
json_parent(id, pid, name, cats) ==
    [id |-> str(id), pid |-> str(pid), name |-> name, cats |-> cats]
json_nameless(id, pid) == [id |-> str(id), pid |-> str(pid)]
json_term_type(type, mode, json_terms) ==
    [type |-> type, mode |-> mode, terms |-> json_terms]

\* Answers of GET /categories/tree/: the values of the top-level object.
UpstreamCategoryTrees ==
    { <<>>,
      << json_parent(1, 0, "film", << json_category(2, 1, "hd") >>) >>,
      << json_category(1, 0, "film"), json_category(3, 0, "film") >>,
      << json_nameless(1, 0) >>,
      << json_parent(1, 0, "film", << json_nameless(2, 1) >>) >>,
      << json_parent(1, 0, "film",
            << json_parent(2, 1, "hd", << json_category(3, 2, "uhd") >>) >>) >>,
      << json_parent(1, 0, "film",
            << json_parent(2, 1, "hd", << json_nameless(3, 2) >>) >>) >> }

Langue == json_term_type("langue", "single", << <<"2", "vf">>, <<"5", "vo">> >>)
Qualite == json_term_type("qualite", "multiple", << <<"3", "bluray">> >>)

\* Answers of GET /terms/tree/: the items of the top-level object, each
\* value the items of that category's term types.
UpstreamTermTrees ==
    { <<>>,
      << <<"1", << <<"1", Langue>> >> >> >>,
      << <<"1", << <<"1", Langue>> >> >>, <<"2", << <<"1", Langue>> >> >> >>,
      << <<"3", << <<"2", Qualite>> >> >> >> }

CategoryNames == {"film", "hd", "series"}

\* FriendlySearchQuery objects.
FriendlyQueries ==
    [expression : {None, Some("foo")},
     category_name : {None} \cup {Some(n) : n \in CategoryNames},
     term_names : {{"vf"}, {"vf", "vo", "bluray"}},
     max_results : {None, Some(10)}]

-----------------------------------------------------------------------------
(***************************************************************************)
(* The proxy as a state machine: one action per call.                      *)
(***************************************************************************)
database ==
    [categories |-> categories, term_types |-> term_types, terms |-> terms,
     category_term_types |-> category_term_types]

StoreDatabase(db) ==
    /\ categories' = db.categories
    /\ term_types' = db.term_types
    /\ terms' = db.terms
    /\ category_term_types' = db.category_term_types

\* T411Proxy(session): an unauthenticated client, nothing memoized, over a
\* storage that holds no taxonomy yet.
Constructed ==
    /\ api_token = None
    /\ credentials = [username |-> None, password |-> None]
    /\ has_cached = None
    /\ categories = {}
    /\ term_types = {}
    /\ terms = {}
    /\ category_term_types = {}

Init ==
    /\ Constructed
    /\ call = [op |-> "__init__"]

\* rest_client.auth()
Auth ==
    \E json_response \in AuthResponses :
        /\ api_token' = auth(api_token, json_response)
        /\ call' = [op |-> "auth", auth_response |-> json_response]
        /\ UNCHANGED <<credentials, has_cached, categories, term_types, terms,
                       category_term_types>>

SetCredentials ==
    \E login \in Logins :
        LET after == set_credentials(login[1], login[2]) IN
        /\ api_token' = after.api_token
        /\ credentials' = after.credentials
        /\ call' = [op |-> "set_credentials"]
        /\ UNCHANGED <<has_cached, categories, term_types, terms,
                       category_term_types>>

HasCachedCriterias ==
    /\ has_cached' = has_cached_criterias(has_cached, categories)
    /\ call' = [op |-> "has_cached_criterias", result |-> Return(has_cached'[1])]
    /\ UNCHANGED <<api_token, credentials, categories, term_types, terms,
                   category_term_types>>

\* auth() is called, and the upstream asked, only when no token is held.
SynchronizeDatabase ==
    \E auth_response \in IF is_authenticated(api_token) THEN {None}
                         ELSE AuthResponses,
       category_tree \in UpstreamCategoryTrees,
       term_tree \in UpstreamTermTrees :
        LET after == synchronize_database(api_token, has_cached, database,
                                          auth_response, category_tree, term_tree)
        IN  /\ api_token' = after.api_token
            /\ has_cached' = after.has_cached
            /\ StoreDatabase(after.db)
            /\ call' = [op |-> "synchronize_database",
                        auth_response |-> auth_response,
                        cached_before |-> has_cached,
                        result |-> after.result]
            /\ UNCHANGED credentials

FindCategoryByName ==
    \E category_name \in CategoryNames :
        /\ call' = [op |-> "find_category_by_name",
                    category_name |-> category_name,
                    result |-> find_category_by_name(categories, category_name)]
        /\ UNCHANGED <<api_token, credentials, has_cached, categories,
                       term_types, terms, category_term_types>>

Search ==
    \E friendly_query \in FriendlyQueries :
        LET done == search(api_token, friendly_query, database) IN
        /\ call' = [op |-> "search", query |-> friendly_query,
                    client_query |-> done.client_query, url |-> done.url,
                    result |-> done.result]
        /\ UNCHANGED <<api_token, credentials, has_cached, categories,
                       term_types, terms, category_term_types>>

\* The manager.db_cleanup event.
DbCleanup ==
    /\ StoreDatabase(db_cleanup(database))
    /\ call' = [op |-> "db_cleanup"]
    /\ UNCHANGED <<api_token, credentials, has_cached>>

Next ==
    \/ Auth
    \/ SetCredentials
    \/ HasCachedCriterias
    \/ SynchronizeDatabase
    \/ FindCategoryByName
    \/ Search
    \/ DbCleanup

Spec == Init /\ [][Next]_vars

-----------------------------------------------------------------------------
(***************************************************************************)
(* The mapper alone: map_category_tree and map_term_type_tree applied to   *)
(* every JSON tree within the bounds.                                      *)
(***************************************************************************)
MaxDepth == 3
MaxCats == 2
MaxTermTypes == 2

\* The id of the j-th sub-category of category id: ids are unique in a tree.
ChildId(id, j) == id * MaxCats + j

\* The JSON nodes of id and pid with at most depth levels: the three kinds
\* of node that lack a field, a node without cats, and a node whose cats
\* hold up to MaxCats nodes of one level less.
RECURSIVE JsonNodes(_, _, _)
JsonNodes(depth, id, pid) ==
    LET RECURSIVE Cats(_)
        Cats(n) ==
            IF n = 0 THEN {<<>>}
            ELSE {Append(s, x) : s \in Cats(n - 1),
                                 x \in JsonNodes(depth - 1, ChildId(id, n), id)}
    IN  {json_nameless(id, pid),
         [id |-> str(id), name |-> "n"],
         [pid |-> str(pid), name |-> "n"],
         json_category(id, pid, "n")}
        \cup (IF depth > 1
              THEN {json_parent(id, pid, "n", cats) :
                       cats \in UNION {Cats(n) : n \in 0..MaxCats}}
              ELSE {})

\* The forests of at most n top-level nodes, the i-th of id i and pid 0.
RECURSIVE JsonForests(_)
JsonForests(n) ==
    IF n = 0 THEN {<<>>}
    ELSE JsonForests(n - 1)
         \cup {Append(s, x) : s \in {f \in JsonForests(n - 1) : Len(f) = n - 1},
                              x \in JsonNodes(MaxDepth, n, 0)}

InitCategoryMapper ==
    /\ Constructed
    /\ call \in {[op |-> "input", json |-> json_category_tree] :
                    json_category_tree \in JsonForests(MaxCats)}

MapCategoryTree ==
    /\ call.op = "input"
    /\ call' = [op |-> "map_category_tree", json |-> call.json,
                result |-> map_category_tree(call.json)]
    /\ UNCHANGED state

SpecCategoryMapper == InitCategoryMapper /\ [][MapCategoryTree]_vars

\* The keys of the term tree: "01" is a second spelling of type 1.
CategoryKeys == {"1", "2"}
TermTypeKeys == {"1", "2", "01"}
TermTypeContents == {Langue, Qualite}

\* The items of n term types under one category, no key twice.
RECURSIVE JsonTermTypeItems(_)
JsonTermTypeItems(n) ==
    IF n = 0 THEN {<<>>}
    ELSE {Append(s, <<k, c>>) :
             s \in JsonTermTypeItems(n - 1),
             k \in TermTypeKeys, c \in TermTypeContents}

NoKeyTwice(items) ==
    \A i, j \in DOMAIN items : items[i][1] = items[j][1] => i = j

JsonTermTypes ==
    {items \in UNION {JsonTermTypeItems(n) : n \in 0..MaxTermTypes} :
        NoKeyTwice(items)}

\* The term trees over CategoryKeys, in every iteration order.
JsonTermTrees ==
    {<<>>}
    \cup {<< <<k, tts>> >> : k \in CategoryKeys, tts \in JsonTermTypes}
    \cup UNION {{<< <<k1, tts1>>, <<k2, tts2>> >> :
                    k2 \in CategoryKeys \ {k1},
                    tts1 \in JsonTermTypes, tts2 \in JsonTermTypes} :
                 k1 \in CategoryKeys}

InitTermTypeMapper ==
    /\ Constructed
    /\ call \in {[op |-> "input", json |-> json_tree] : json_tree \in JsonTermTrees}

MapTermTypeTree ==
    /\ call.op = "input"
    /\ call' = [op |-> "map_term_type_tree", json |-> call.json,
                result |-> map_term_type_tree(call.json)]
    /\ UNCHANGED state

SpecTermTypeMapper == InitTermTypeMapper /\ [][MapTermTypeTree]_vars

-----------------------------------------------------------------------------
(***************************************************************************)
(* The claims.                                                             *)
(***************************************************************************)
Called(op) == call.op = op
AuthAnswered(c) == Has(c, "auth_response") /\ c.auth_response # None

\* C1: get_json is only ever called while the REST client is authenticated:
\* no call on the proxy ends with the AssertionError of get_json.
C1_GetJsonAuthenticated ==
    Has(call, "result") => call.result # Raise("AssertionError")

\* C2: the client goes from unauthenticated to authenticated only in an
\* auth() call answered without an error, from authenticated to
\* unauthenticated only in set_credentials, and an auth() call answered with
\* an error leaves the token as it was.
C2_AuthTransitions ==
    [][/\ (~is_authenticated(api_token) /\ is_authenticated(api_token'))
            => (AuthAnswered(call') /\ ~Has(call'.auth_response, "error"))
       /\ (is_authenticated(api_token) /\ ~is_authenticated(api_token'))
            => call'.op = "set_credentials"
       /\ (AuthAnswered(call') /\ Has(call'.auth_response, "error"))
            => api_token' = api_token]_vars

\* An auth() call answered with an error while a token is held.
C2_Witness ==
    /\ Called("auth")
    /\ Has(call.auth_response, "error")
    /\ is_authenticated(api_token)

\* C3: has_cached_criterias() returns true if and only if at least one
\* Category row exists in storage at the time of the call.
C3_HasCachedIffCategoryRows ==
    Called("has_cached_criterias") => call.result = Return(categories # {})

\* C4 as claimed: every set_credentials call and every completed
\* synchronize_database call resets the memoized flag to None.
C4_InvalidatedByCredentialsAndSync ==
    [][(\/ call'.op = "set_credentials"
        \/ call'.op = "synchronize_database" /\ Returned(call'.result))
            => has_cached' = None]_vars

\* C4 as amended: every completed synchronize_database call resets the
\* memoized flag to None and set_credentials leaves the flag as it was; a
\* flag that is None stays None until has_cached_criterias is called, which
\* then recounts the stored categories, and a flag that is set is returned
\* as it is.
C4_InvalidatedBySync ==
    [][/\ (call'.op = "synchronize_database" /\ Returned(call'.result))
            => has_cached' = None
       /\ call'.op = "set_credentials" => has_cached' = has_cached
       /\ (has_cached = None /\ call'.op # "has_cached_criterias")
            => has_cached' = None
       /\ (has_cached = None /\ call'.op = "has_cached_criterias")
            => /\ call'.result = Return(categories # {})
               /\ has_cached' = Some(categories # {})
       /\ (has_cached # None /\ call'.op = "has_cached_criterias")
            => /\ call'.result = Return(has_cached[1])
               /\ has_cached' = has_cached]_vars

\* A completed synchronize_database call that stored categories and reset a
\* flag memoized as false.
C4_Witness ==
    /\ Called("synchronize_database")
    /\ Returned(call.result)
    /\ call.cached_before = Some(FALSE)
    /\ has_cached = None
    /\ categories # {}

\* C5: after db_cleanup the storage holds no Category row, no TermType row
\* and no Term row.
C5_CleanupDeletesTerms ==
    Called("db_cleanup") => categories = {} /\ term_types = {} /\ terms = {}

\* Whether every node of a JSON forest, at every depth, has id, pid and name.
RECURSIVE JsonAllValid(_)
JsonAllValid(nodes) ==
    \A i \in DOMAIN nodes :
        /\ Has(nodes[i], "id") /\ Has(nodes[i], "pid") /\ Has(nodes[i], "name")
        /\ Has(nodes[i], "cats") => JsonAllValid(nodes[i].cats)

\* The ids of the nodes of a JSON forest, at every depth.
RECURSIVE JsonIds(_)
JsonIds(nodes) ==
    UNION {(IF Has(nodes[i], "id") THEN {int(nodes[i].id)} ELSE {})
           \cup (IF Has(nodes[i], "cats") THEN JsonIds(nodes[i].cats) ELSE {}) :
           i \in DOMAIN nodes}

JsonValid(node) == Has(node, "id") /\ Has(node, "pid") /\ Has(node, "name")

\* C6: for a forest of any depth whose nodes are all valid, the lookup table
\* of map_category_tree has exactly the ids of all categories of the forest
\* as its keys, each mapped to the Category of that id, and every root of
\* pid 0 has parent_id None.
C6_LookupCoversForest ==
    (Called("map_category_tree") /\ JsonAllValid(call.json)) =>
        /\ Returned(call.result)
        /\ LET main_categories == call.result.returned.main_categories
               indexed_categories == call.result.returned.indexed_categories
           IN  /\ DOMAIN indexed_categories = JsonIds(call.json)
               /\ \A id \in DOMAIN indexed_categories :
                     indexed_categories[id].id = id
               /\ Len(main_categories) = Len(call.json)
               /\ \A i \in DOMAIN main_categories :
                     int(call.json[i].pid) = 0
                        => main_categories[i].parent_id = None

\* C7: for every forest map_category_tree completes without error, its root
\* list holds the Category of every valid root and nothing else, its lookup
\* table holds Category objects only, and no sub_categories list at any
\* depth holds None.
C7_InvalidNodesDropped ==
    Called("map_category_tree") =>
        /\ Returned(call.result)
        /\ LET main_categories == call.result.returned.main_categories
               indexed_categories == call.result.returned.indexed_categories
           IN  /\ Len(main_categories)
                     = Cardinality({i \in DOMAIN call.json : JsonValid(call.json[i])})
               /\ \A i \in DOMAIN main_categories : main_categories[i] # None
               /\ \A id \in DOMAIN indexed_categories :
                     indexed_categories[id] # None
               /\ ~holds_none(main_categories)

\* C8: for a friendly query that names an existing category, every pair the
\* translation resolves is (term_id, term_type_id) of a stored Term whose
\* name is in term_names and whose type is associated with the category,
\* and the url carries cat, limit and offset, in that order, then one
\* parameter term[<term_type_id>][] per resolved term, its value the
\* term's id.
C8_TermsSentByType ==
    (/\ Called("search")
     /\ call.query.category_name # None
     /\ Returned(call.client_query)) =>
        LET client_query == call.client_query.returned
            resolved == client_query.terms
            matching == {t \in terms :
                            /\ t.name \in call.query.term_names
                            /\ \E tt \in term_types : tt.id = t.type_id
                            /\ <<client_query.category_id, t.type_id>>
                                  \in category_term_types}
            leading ==
                << <<(<<"cat">>), str(client_query.category_id)>> >>
                \o (IF call.query.max_results # None
                    THEN << <<(<<"limit">>), str(call.query.max_results[1])>>,
                            <<(<<"offset">>), str(0)>> >>
                    ELSE <<>>)
            url_params == call.url.url_params
        IN  /\ \A i \in DOMAIN resolved :
                  \E t \in matching : resolved[i] = <<t.id, t.type_id>>
            /\ Len(url_params) = Len(leading) + Len(resolved)
            /\ SubSeq(url_params, 1, Len(leading)) = leading
            /\ \A i \in DOMAIN resolved :
                  \E t \in matching :
                      url_params[Len(leading) + i]
                          = <<term_param_name(t.type_id), str(t.id)>>
            /\ Cardinality(matching) = Len(resolved)

\* The pairs <<i, j>> of the occurrences of a term type under a category:
\* the j-th term type of the i-th category of the tree.
Occurrences(json_tree) ==
    UNION {{<<i, j>> : j \in DOMAIN json_tree[i][2]} : i \in DOMAIN json_tree}
OccurrencePair(json_tree, o) ==
    <<int(json_tree[o[1]][1]), int(json_tree[o[1]][2][o[2]][1])>>

\* C9: map_term_type_tree returns exactly one association pair
\* (category_id, term_type_id) per occurrence of a term type under a
\* category, and a term-type map of exactly one TermType per distinct
\* term_type_id: map_term_type is called once for each distinct id, and a
\* repeated id adds an association only.
C9_OnePairPerOccurrence ==
    Called("map_term_type_tree") =>
        LET pairs == call.result.category_to_term_type
            occurrences == Occurrences(call.json)
            ids == {OccurrencePair(call.json, o)[2] : o \in occurrences}
        IN  /\ Len(pairs) = Cardinality(occurrences)
            /\ \A p \in Range(pairs) \cup
                        {OccurrencePair(call.json, o) : o \in occurrences} :
                  Cardinality({i \in DOMAIN pairs : pairs[i] = p})
                    = Cardinality({o \in occurrences :
                                     OccurrencePair(call.json, o) = p})
            /\ DOMAIN call.result.term_types = ids
            /\ \A id \in ids : call.result.term_types[id].id = id
            /\ Len(call.result.mapped) = Cardinality(ids)
            /\ Range(call.result.mapped) = ids

\* A tree in which one term type id occurs under two categories.
C9_Witness ==
    /\ Called("map_term_type_tree")
    /\ \E o1, o2 \in Occurrences(call.json) :
          /\ o1[1] # o2[1]
          /\ OccurrencePair(call.json, o1)[2] = OccurrencePair(call.json, o2)[2]
    /\ Len(call.result.category_to_term_type) > Len(call.result.mapped)

\* C10: find_category_by_name never raises; it returns None if and only if
\* no stored Category has exactly that name, and otherwise the stored
\* Category of that name that comes first in query order.
C10_FindCategoryByName ==
    Called("find_category_by_name") =>
        LET matches == {c \in categories : c.name = call.category_name}
        IN  /\ Returned(call.result)
            /\ call.result.returned = None <=> matches = {}
            /\ matches # {} =>
                  /\ call.result.returned \in matches
                  /\ \A c \in matches : call.result.returned.id <= c.id

\* A lookup of a name that two stored categories share.
C10_Witness ==
    /\ Called("find_category_by_name")
    /\ Cardinality({c \in categories : c.name = call.category_name}) > 1
    /\ Returned(call.result)
    /\ call.result.returned # None

=============================================================================
